---- MODULE Spec2Model ----
(***************************************************************************)
(* DelaunayVoronoiDual (openpnm/network/DelaunayVoronoiDual.py): the       *)
(* construction pipeline Point Preparation -> tessellation -> Dual-Graph   *)
(* Fusion -> labelling -> Domain Trimming & Surface Relocation, and the    *)
(* facet query on the finished network.                                    *)
(*                                                                         *)
(* Pores are numbered from 0 as in the code (Delaunay points first, then   *)
(* the Voronoi vertices offset by vor.npoints); per-pore arrays are        *)
(* functions over 0 .. Np-1, per-throat arrays are sequences.  Coordinates *)
(* are one-dimensional exact rationals <<num, den>>; den = 0 is NaN.       *)
(***************************************************************************)
EXTENDS Integers, Sequences, FiniteSets, TLC

VARIABLES pc, points, num_points, ridge_dict, raw, conns, net, facets

vars == <<pc, points, num_points, ridge_dict, raw, conns, net, facets>>

(* Bounds of the model *)
NumDelaunay == 3
NumVoronoi == 2
MaxRidges == 3

(* shape=[1, 1, 1]: the outer corner of the domain *)
Shape == 1

(* the opposite corner of the domain lies at [0, 0, 0] *)
Origin == 0

None == "None"

Nall == NumDelaunay + NumVoronoi

Idx(n) == 0 .. (n - 1)

(***************************************************************************)
(* Exact arithmetic on coordinates                                         *)
(***************************************************************************)
RECURSIVE Gcd(_, _)
Gcd(a, b) == IF b = 0 THEN a ELSE Gcd(b, a % b)

Abs(x) == IF x < 0 THEN -x ELSE x

Rat(x) == <<x, 1>>

NaN == <<0, 0>>

IsNaN(c) == c[2] = 0

Norm(c) ==
    IF c[2] = 0 THEN NaN
    ELSE LET g == Gcd(Abs(c[1]), c[2]) IN <<c[1] \div g, c[2] \div g>>

RatAdd(a, b) ==
    IF IsNaN(a) \/ IsNaN(b) THEN NaN
    ELSE Norm(<<a[1] * b[2] + b[1] * a[2], a[2] * b[2]>>)

RatEq(a, b) == ~IsNaN(a) /\ ~IsNaN(b) /\ a[1] * b[2] = b[1] * a[2]

RECURSIVE SumOver(_, _)
SumOver(coords, S) ==
    IF S = {} THEN Rat(0)
    ELSE LET p == CHOOSE q \in S : \A r \in S : q <= r
         IN RatAdd(coords[p], SumOver(coords, S \ {p}))

(* sp.mean(coords[mask], axis=0): the mean of an empty selection is NaN *)
Mean(coords, S) ==
    LET s == SumOver(coords, S)
    IN Norm(<<s[1], s[2] * Cardinality(S)>>)

(***************************************************************************)
(* Tessellation result: vor.ridge_dict maps a pair of input points to the  *)
(* Voronoi vertices of their ridge, -1 standing for an unbounded ridge.    *)
(***************************************************************************)
RidgeKeys == {k \in Idx(NumDelaunay) \X Idx(NumDelaunay) : k[1] < k[2]}

(* the ridges of a 2-D tessellation: two vertices, or the sentinel and one
   vertex, or the sentinel alone *)
VertexLists ==
    {<<-1>>}
        \cup {<<-1, v>> : v \in Idx(NumVoronoi)}
        \cup {l \in Idx(NumVoronoi) \X Idx(NumVoronoi) : l[1] < l[2]}

RidgeDicts ==
    UNION {[K -> VertexLists] :
              K \in {S \in SUBSET RidgeKeys : Cardinality(S) <= MaxRidges}}

(* the keys of the dict in iteration order *)
RECURSIVE KeyOrder(_)
KeyOrder(K) ==
    IF K = {} THEN <<>>
    ELSE LET k == CHOOSE x \in K : \A y \in K :
                      x[1] < y[1] \/ (x[1] = y[1] /\ x[2] <= y[2])
         IN <<k>> \o KeyOrder(K \ {k})

(***************************************************************************)
(* Dual-Graph Fusion                                                       *)
(***************************************************************************)
(* row = [i + vor.npoints for i in row if i > -1] *)
BoundedRow(verts) ==
    LET kept == SelectSeq(verts, LAMBDA i : i > -1)
    IN [k \in 1 .. Len(kept) |-> kept[k] + NumDelaunay]

(* [am.rows[i].extend(items) for i in ridge] *)
ExtendRows(rows, ridge, items) ==
    LET r1 == [rows EXCEPT ![ridge[1]] = @ \o items]
    IN [r1 EXCEPT ![ridge[2]] = @ \o items]

(* [am.rows[row[i]].append(row[i+1]) for i in range(len(row)-1)] *)
RECURSIVE AppendCycle(_, _, _)
AppendCycle(rows, row, i) ==
    IF i > Len(row) - 1 THEN rows
    ELSE AppendCycle([rows EXCEPT ![row[i]] = Append(@, row[i + 1])], row, i + 1)

(* one pass of the loop over the ridges; row is not empty *)
EmitRidge(rows, ridge, verts) ==
    LET row == BoundedRow(verts)
        r1 == ExtendRows(rows, ridge, <<ridge[1], ridge[2]>>)
        r2 == ExtendRows(r1, ridge, row)
    IN AppendCycle(r2, Append(row, row[1]), 1)

RECURSIVE EmitAll(_, _, _)
EmitAll(rows, dict, keys) ==
    IF keys = <<>> THEN rows
    ELSE EmitAll(EmitRidge(rows, Head(keys), dict[Head(keys)]), dict, Tail(keys))

RECURSIVE RowsToCoo(_, _)
RowsToCoo(rows, i) ==
    IF i >= Nall THEN <<>>
    ELSE [k \in 1 .. Len(rows[i]) |-> <<i, rows[i][k]>>] \o RowsToCoo(rows, i + 1)

(* am = lil_matrix((Nall, Nall)) ... conns = vstack((am.row, am.col)).T *)
RawConns(dict) ==
    RowsToCoo(EmitAll([i \in Idx(Nall) |-> <<>>], dict, KeyOrder(DOMAIN dict)), 0)

(* row[0] of a ridge whose vertices are all unbounded raises IndexError *)
EmitFails(dict) == \E k \in DOMAIN dict : BoundedRow(dict[k]) = <<>>

SeqRange(s) == {s[k] : k \in 1 .. Len(s)}

SortPair(e) == IF e[1] <= e[2] THEN e ELSE <<e[2], e[1]>>

(* the entries of am.row, am.col of a coo matrix made from a csr matrix *)
SortedPairs(S) ==
    LET all == [k \in 1 .. (Nall * Nall) |-> <<(k - 1) \div Nall, (k - 1) % Nall>>]
    IN SelectSeq(all, LAMBDA e : e \in S)

(* topotools.conns_to_am(conns, force_triu=True, drop_diag, drop_dupes=True) *)
ConnsToAm(cn, drop_diag) ==
    LET triu == {SortPair(e) : e \in SeqRange(cn)}
        kept == IF drop_diag THEN {e \in triu : e[1] # e[2]} ELSE triu
    IN SortedPairs(kept)

FusedConnsRaw(cn) == cn

FusedConnsKeepDiag(cn) == ConnsToAm(cn, FALSE)

(* am = topotools.conns_to_am(conns); conns = vstack((am.row, am.col)).T *)
FusedConns(cn) == ConnsToAm(cn, TRUE)

(***************************************************************************)
(* The host network: a dictionary of per-pore and per-throat arrays        *)
(***************************************************************************)
NoNet == [k \in {} |-> {}]

PoreKeys ==
    {"pore.coords", "pore.delaunay", "pore.voronoi", "pore.external",
     "pore.keep", "pore.surface", "pore.internal"}

Np(n) == Cardinality(DOMAIN n["pore.coords"])

Nt(n) == Len(n["throat.conns"])

(* self[key] = array *)
SetItem(n, key, arr) ==
    [k \in DOMAIN n \cup {key} |-> IF k = key THEN arr ELSE n[k]]

(* del self[key] *)
DelItem(n, key) == [k \in DOMAIN n \ {key} |-> n[k]]

PoreMask(n, S) == [p \in Idx(Np(n)) |-> p \in S]

ThroatMask(n, S) == [t \in 1 .. Nt(n) |-> t \in S]

(* the members of a set of numbers below n, in increasing order *)
Sorted(S, n) == SelectSeq([i \in 1 .. n |-> i - 1], LAMBDA x : x \in S)

(* GenericNetwork.__init__(conns=conns, coords=coords) *)
GenericNetwork(cn, coords) ==
    [k \in {"pore.coords", "throat.conns"} |->
        IF k = "pore.coords" THEN coords ELSE cn]

(* the pores one throat away from the pores P *)
Neighbors(n, P) ==
    LET cn == n["throat.conns"]
    IN {cn[t][2] : t \in {u \in 1 .. Nt(n) : cn[u][1] \in P}}
           \cup {cn[t][1] : t \in {u \in 1 .. Nt(n) : cn[u][2] \in P}}

(* GenericNetwork.find_neighbor_pores(pores, mode='union', include_input) *)
FindNeighborPores(n, P, include_input) ==
    IF include_input THEN Neighbors(n, P) \cup P ELSE Neighbors(n, P) \ P

(* GenericNetwork.find_neighbor_throats(pores, mode): 'or' counts the throats
   with an end in P, 'xnor' those found from more than one pore of P *)
FindNeighborThroats(n, P, mode) ==
    LET ends(t) == {e \in {1, 2} : n["throat.conns"][t][e] \in P}
    IN {t \in 1 .. Nt(n) :
          IF mode = "xnor" THEN Cardinality(ends(t)) > 1 ELSE ends(t) # {}}

(* GenericNetwork.pores(labels, mode): 'or' any label, 'xnor' more than one *)
Pores(n, labels, mode) ==
    LET have(p) == {l \in labels : n[l][p]}
    IN {p \in Idx(Np(n)) :
          IF mode = "xnor" THEN Cardinality(have(p)) > 1 ELSE have(p) # {}}

(* GenericNetwork.throats(labels, mode): 'not' none of the labels, 'or' any *)
Throats(n, labels, mode) ==
    LET have(t) == {l \in labels : n[l][t]}
    IN {t \in 1 .. Nt(n) : IF mode = "not" THEN have(t) = {} ELSE have(t) # {}}

(* topotools.isoutside(coords, shape): beyond the box on an axis *)
IsOutside(coords, shape) ==
    {p \in DOMAIN coords :
        /\ ~IsNaN(coords[p])
        /\ \/ coords[p][1] > shape * coords[p][2]
           \/ coords[p][1] < Origin * coords[p][2]}

(* the arrays of n cut down to the pores oldP and the throats oldT, which
   are listed in increasing order, the pores renumbered by newP *)
Compact(n, oldP, oldT, newP) ==
    [k \in DOMAIN n |->
        IF k \in PoreKeys
        THEN [i \in Idx(Len(oldP)) |-> n[k][oldP[i + 1]]]
        ELSE IF k = "throat.conns"
        THEN [i \in 1 .. Len(oldT) |->
                 <<newP[n[k][oldT[i]][1]], newP[n[k][oldT[i]][2]]>>]
        ELSE [i \in 1 .. Len(oldT) |-> n[k][oldT[i]]]]

(* topotools.trim(network, pores, throats): the pores, the throats touching
   them and the given throats go; the rest is renumbered in order *)
Trim(n, dropP, dropT) ==
    LET cn == n["throat.conns"]
        keepP == Idx(Np(n)) \ dropP
        keepT == {t \in 1 .. Nt(n) :
                     t \notin dropT /\ cn[t][1] \in keepP /\ cn[t][2] \in keepP}
    IN CHOOSE r \in
           {Compact(n, oldP, [i \in 1 .. Len(oldT) |-> oldT[i] + 1],
                    [p \in keepP |-> CHOOSE i \in Idx(Len(oldP)) : oldP[i + 1] = p]) :
               oldP \in {Sorted(keepP, Np(n))},
               oldT \in {Sorted({t - 1 : t \in keepT}, Nt(n))}} : TRUE

(***************************************************************************)
(* Labelling by type, __init__ lines 123-139                               *)
(***************************************************************************)
ThroatDelaunayAny(cn) ==
    [t \in 1 .. Len(cn) |-> cn[t][1] < NumDelaunay \/ cn[t][2] < NumDelaunay]

(* Ts = sp.all(self['throat.conns'] < vor.npoints, axis=1) *)
ThroatDelaunay(cn) ==
    [t \in 1 .. Len(cn) |-> cn[t][1] < NumDelaunay /\ cn[t][2] < NumDelaunay]

(* Ts = sp.all(self['throat.conns'] >= vor.npoints, axis=1) *)
ThroatVoronoi(cn) ==
    [t \in 1 .. Len(cn) |-> cn[t][1] >= NumDelaunay /\ cn[t][2] >= NumDelaunay]

(* Ts = self.throats(labels=['delaunay', 'voronoi'], mode='not') *)
ThroatInterconnect(n) ==
    ThroatMask(n, Throats(n, {"throat.delaunay", "throat.voronoi"}, "not"))

LabelByType(n) ==
    LET cn == n["throat.conns"]
        s1 == {[k \in {"pore.coords", "throat.conns", "pore.delaunay", "pore.voronoi",
                       "throat.delaunay", "throat.voronoi"} |->
                  CASE k = "pore.delaunay" -> [p \in Idx(Np(x)) |-> p < NumDelaunay]
                    [] k = "pore.voronoi" -> [p \in Idx(Np(x)) |-> p >= NumDelaunay]
                    [] k = "throat.delaunay" -> ThroatDelaunay(x["throat.conns"])
                    [] k = "throat.voronoi" -> ThroatVoronoi(x["throat.conns"])
                    [] OTHER -> x[k]] : x \in {n}}
        s2 == {SetItem(x, "throat.interconnect", ThroatInterconnect(x)) : x \in s1}
    IN CHOOSE x \in s2 : TRUE

(***************************************************************************)
(* Domain Trimming & Surface Relocation: _trim_external_pores              *)
(***************************************************************************)
KeepPoresNoInput(n) ==
    FindNeighborPores(n, Pores(n, {"pore.delaunay"}, "or")
                             \ Pores(n, {"pore.external"}, "or"), FALSE)

(* Ps = (~self['pore.external'])*self['pore.delaunay']
   Ps = self.find_neighbor_pores(pores=Ps, include_input=True) *)
KeepPores(n) ==
    FindNeighborPores(n, Pores(n, {"pore.delaunay"}, "or")
                             \ Pores(n, {"pore.external"}, "or"), TRUE)

SurfaceDelaunayAnyClass(n) == [p \in Idx(Np(n)) |-> n["pore.external"][p]]

(* self['pore.surface'] = self['pore.delaunay']*self['pore.external'] *)
SurfaceDelaunay(n) ==
    [p \in Idx(Np(n)) |-> n["pore.delaunay"][p] /\ n["pore.external"][p]]

(* Ps = self.find_neighbor_pores(pores=self.pores('surface'))
   Ps = self['pore.voronoi']*self.tomask(pores=Ps) *)
SurfaceVoronoi(n) ==
    {p \in FindNeighborPores(n, Pores(n, {"pore.surface"}, "or"), FALSE) :
        n["pore.voronoi"][p]}

ThroatSurfaceAnyEnd(n) ==
    FindNeighborThroats(n, Pores(n, {"pore.surface"}, "or"), "or")

(* Ps = self.pores('surface')
   Ts = self.find_neighbor_throats(pores=Ps, mode='xnor') *)
ThroatSurface(n) ==
    FindNeighborThroats(n, Pores(n, {"pore.surface"}, "or"), "xnor")

(* Ps = self.pores(labels=['surface', 'delaunay'], mode='xnor')
   Ts = self.find_neighbor_throats(pores=Ps, mode='xnor') *)
SurfaceDelaunayThroats(n) ==
    FindNeighborThroats(n, Pores(n, {"pore.surface", "pore.delaunay"}, "xnor"), "xnor")

RelocationSourcesAnyClass(n, P) == FindNeighborPores(n, {P}, FALSE)

RelocationSourcesWithInput(n, P) ==
    {q \in FindNeighborPores(n, {P}, FALSE) : n["pore.voronoi"][q]} \cup {P}

(* Ns = self.find_neighbor_pores(pores=P)
   Ns = Ps = self['pore.voronoi']*self.tomask(pores=Ns) *)
RelocationSources(n, P) ==
    {q \in FindNeighborPores(n, {P}, FALSE) : n["pore.voronoi"][q]}

(* coords = sp.mean(self['pore.coords'][Ns], axis=0)
   self['pore.coords'][P] = coords *)
RelocateOne(n, P) ==
    [n EXCEPT !["pore.coords"][P] = Mean(n["pore.coords"], RelocationSources(n, P))]

(* for P in Ps: the loop runs over the array Ps was bound to when it began,
   whatever Ps is bound to in its body *)
RECURSIVE Relocate(_, _)
Relocate(n, Ps) ==
    IF Ps = <<>> THEN n
    ELSE CHOOSE m \in {Relocate(x, Tail(Ps)) : x \in {RelocateOne(n, Head(Ps))}} : TRUE

(* Ps = self.pores('internal')
   Ts = self.find_neighbor_throats(pores=Ps, mode='xnor') *)
ThroatInternal(n) ==
    FindNeighborThroats(n, Pores(n, {"pore.internal"}, "or"), "xnor")

(* Ps = topotools.isoutside(coords=self['pore.coords'], shape=shape) *)
MarkExternal(n, shape) ==
    SetItem(n, "pore.external", PoreMask(n, IsOutside(n["pore.coords"], shape)))

MarkKeep(n) == SetItem(n, "pore.keep", PoreMask(n, KeepPores(n)))

(* topotools.trim(network=self, pores=~self['pore.keep']) *)
TrimBadPores(n) == Trim(n, Idx(Np(n)) \ Pores(n, {"pore.keep"}, "or"), {})

LabelSurfaceDelaunay(n) == SetItem(n, "pore.surface", SurfaceDelaunay(n))

(* self['pore.surface'][Ps] = True *)
LabelSurfaceVoronoi(n) ==
    LET Ps == SurfaceVoronoi(n)
    IN [n EXCEPT !["pore.surface"] = [p \in Idx(Np(n)) |-> @[p] \/ p \in Ps]]

LabelThroatSurface(n) ==
    SetItem(n, "throat.surface", ThroatMask(n, ThroatSurface(n)))

(* topotools.trim(network=self, throats=Ts) *)
TrimSurfaceDelaunayThroats(n) == Trim(n, {}, SurfaceDelaunayThroats(n))

RelocateSurface(n) ==
    Relocate(n, Sorted(Pores(n, {"pore.surface", "pore.delaunay"}, "xnor"), Np(n)))

(* self['pore.internal'] = ~self['pore.surface'] *)
LabelPoreInternal(n) ==
    SetItem(n, "pore.internal", [p \in Idx(Np(n)) |-> ~n["pore.surface"][p]])

LabelThroatInternal(n) ==
    SetItem(n, "throat.internal", ThroatMask(n, ThroatInternal(n)))

(* del self['pore.external']; del self['pore.keep'] *)
CleanUp(n) == DelItem(DelItem(n, "pore.external"), "pore.keep")

(* the statements of _trim_external_pores in order, each applied to the
   network the one before it left *)
TrimExternalPores(n, shape) ==
    LET s1 == {MarkExternal(x, shape) : x \in {n}}
        s2 == {MarkKeep(x) : x \in s1}
        s3 == {TrimBadPores(x) : x \in s2}
        s4 == {LabelSurfaceDelaunay(x) : x \in s3}
        s5 == {LabelSurfaceVoronoi(x) : x \in s4}
        s6 == {LabelThroatSurface(x) : x \in s5}
        s7 == {TrimSurfaceDelaunayThroats(x) : x \in s6}
        s8 == {RelocateSurface(x) : x \in s7}
        s9 == {LabelPoreInternal(x) : x \in s8}
        s10 == {LabelThroatInternal(x) : x \in s9}
        s11 == {CleanUp(x) : x \in s10}
    IN CHOOSE x \in s11 : TRUE

(***************************************************************************)
(* Facet query                                                             *)
(***************************************************************************)
(* GenericNetwork.create_adjacency_matrix(weights, fmt='lil', drop_zeros):
   am.rows, the columns stored in each row of the symmetric matrix *)
CreateAdjacencyMatrix(n, weights, drop_zeros) ==
    LET cn == n["throat.conns"]
        Ts == {t \in 1 .. Nt(n) : ~drop_zeros \/ weights[t] # 0}
    IN [p \in Idx(Np(n)) |->
          {cn[t][2] : t \in {u \in Ts : cn[u][1] = p}}
              \cup {cn[t][1] : t \in {u \in Ts : cn[u][2] = p}}]

FacetsOf(n, throats, drop_zeros) ==
    LET tvals == [t \in 1 .. Nt(n) |-> IF n["throat.interconnect"][t] THEN 1 ELSE 0]
        am == CreateAdjacencyMatrix(n, tvals, drop_zeros)
    IN [i \in 1 .. Len(throats) |->
          LET P12 == n["throat.conns"][throats[i]]
          IN am[P12[1]] \cap am[P12[2]]]

FindThroatFacetsKeepZeros(n, throats) == FacetsOf(n, throats, FALSE)

(* find_throat_facets(throats): one set per throat, in the order given *)
FindThroatFacets(n, throats) == FacetsOf(n, throats, TRUE)

(* throats = self.throats('delaunay') when throats is None *)
AllDelaunayThroats(n) ==
    LET S == Sorted({t - 1 : t \in Throats(n, {"throat.delaunay"}, "or")}, Nt(n))
    IN [i \in 1 .. Len(S) |-> S[i] + 1]

(***************************************************************************)
(* The inputs                                                              *)
(***************************************************************************)
Outside == Shape + 1

(* pts_all: the points, then the vertices, each inside the domain (at its
   origin) or outside it.  The points inside come before those outside, and
   so do the vertices; any other input is one of these with its points or
   its vertices renumbered. *)
PointSets ==
    {c \in [Idx(Nall) -> {Rat(Origin), Rat(Outside)}] :
        /\ \A p, q \in Idx(NumDelaunay) : p < q /\ c[p] = Rat(Outside) => c[q] = Rat(Outside)
        /\ \A p, q \in NumDelaunay .. (Nall - 1) :
               p < q /\ c[p] = Rat(Outside) => c[q] = Rat(Outside)}

(***************************************************************************)
(* The state machine                                                       *)
(***************************************************************************)
Init ==
    /\ pc = "start"
    /\ points \in {None, "array"}
    /\ num_points \in {None, "int"}
    /\ ridge_dict = <<>>
    /\ raw = <<>>
    /\ conns = <<>>
    /\ net = NoNet
    /\ facets = <<>>

ParsePointsNeverRaises(pts, n) == FALSE

(* _parse_points: raise Exception('Must specify either "points" or
   "num_points"') *)
ParsePointsRaises(pts, n) == pts = None /\ n = None

(* __init__ lines 73-76; num_points is not read after _parse_points *)
ParsePoints ==
    /\ pc = "start"
    /\ IF ParsePointsRaises(points, num_points)
       THEN pc' = "raised" /\ points' = points
       ELSE pc' = "parsed" /\ points' = "array"
    /\ num_points' = None
    /\ UNCHANGED <<ridge_dict, raw, conns, net, facets>>

(* vor = sptl.Voronoi(points=points) *)
Tessellate ==
    /\ pc = "parsed"
    /\ \E d \in RidgeDicts : ridge_dict' = d
    /\ pc' = "tessellated"
    /\ UNCHANGED <<points, num_points, raw, conns, net, facets>>

(* __init__ lines 90-115 *)
Fuse ==
    /\ pc = "tessellated"
    /\ IF EmitFails(ridge_dict)
       THEN pc' = "index_error" /\ UNCHANGED <<raw, conns>>
       ELSE /\ pc' = "fused"
            /\ raw' = RawConns(ridge_dict)
            /\ conns' = FusedConns(RawConns(ridge_dict))
    /\ UNCHANGED <<points, num_points, ridge_dict, net, facets>>

(* __init__ lines 117-139; the locals of the fusion are not read again *)
Label ==
    /\ pc = "fused"
    /\ \E c \in PointSets : net' = LabelByType(GenericNetwork(conns, c))
    /\ pc' = "labelled"
    /\ ridge_dict' = <<>>
    /\ raw' = <<>>
    /\ conns' = <<>>
    /\ UNCHANGED <<points, num_points, facets>>

(* __init__ line 142 *)
TrimExternal ==
    /\ pc = "labelled"
    /\ net' = TrimExternalPores(net, Shape)
    /\ pc' = "done"
    /\ UNCHANGED <<points, num_points, ridge_dict, raw, conns, facets>>

(* _trim_external_pores(shape) called again on the finished network *)
Retrim ==
    /\ pc = "done"
    /\ net' = TrimExternalPores(net, Shape)
    /\ pc' = "retrimmed"
    /\ UNCHANGED <<points, num_points, ridge_dict, raw, conns, facets>>

(* find_throat_facets() on the finished network *)
Query ==
    /\ pc = "done"
    /\ facets' = FindThroatFacets(net, AllDelaunayThroats(net))
    /\ pc' = "queried"
    /\ UNCHANGED <<points, num_points, ridge_dict, raw, conns, net>>

Next ==
    \/ ParsePoints
    \/ Tessellate
    \/ Fuse
    \/ Label
    \/ TrimExternal
    \/ Retrim
    \/ Query

Spec == Init /\ [][Next]_vars

(***************************************************************************)
(* Properties                                                              *)
(***************************************************************************)
Finished == pc \in {"done", "queried", "retrimmed"}

PoresOf(n) == Idx(Np(n))

ThroatsOf(n) == 1 .. Nt(n)

Ends(n, t) == {n["throat.conns"][t][1], n["throat.conns"][t][2]}

Adjacent(n, a, b) == \E t \in ThroatsOf(n) : Ends(n, t) = {a, b}

Beyond(c) == c[2] # 0 /\ (c[1] > Shape * c[2] \/ c[1] < Origin * c[2])

(* the pores of the labelled network n that the trimming is to retain *)
InternalDelaunay(n) ==
    {p \in PoresOf(n) : n["pore.delaunay"][p] /\ ~Beyond(n["pore.coords"][p])}

ExpectedKept(n) ==
    UNION {Ps \cup {p \in PoresOf(n) : \E q \in Ps : Adjacent(n, p, q)} :
              Ps \in {InternalDelaunay(n)}}

(* C1: in the finished network every throat carries exactly one of the
   labels throat.delaunay, throat.voronoi, throat.interconnect, and the label
   is the one its endpoints' classes give: delaunay iff both are Delaunay
   pores, voronoi iff both are Voronoi pores, interconnect iff one of each. *)
C1_ThroatLabelsPartition ==
    Finished =>
        \A t \in ThroatsOf(net) :
            LET a == net["throat.conns"][t][1]
                b == net["throat.conns"][t][2]
                d == net["throat.delaunay"][t]
                v == net["throat.voronoi"][t]
                i == net["throat.interconnect"][t]
            IN /\ Cardinality({l \in {"throat.delaunay", "throat.voronoi",
                                       "throat.interconnect"} : net[l][t]}) = 1
               /\ d <=> (net["pore.delaunay"][a] /\ net["pore.delaunay"][b])
               /\ v <=> (net["pore.voronoi"][a] /\ net["pore.voronoi"][b])
               /\ i <=> (net["pore.delaunay"][a] # net["pore.delaunay"][b])
               /\ i <=> (net["pore.voronoi"][a] # net["pore.voronoi"][b])

C1_Witness ==
    /\ pc = "done"
    /\ Np(net) < Nall
    /\ \E t \in ThroatsOf(net) : net["throat.delaunay"][t]
    /\ \E t \in ThroatsOf(net) : net["throat.voronoi"][t]
    /\ \E t \in ThroatsOf(net) : net["throat.interconnect"][t]
    /\ \E p \in PoresOf(net) : net["pore.surface"][p] /\ net["pore.delaunay"][p]

(* C2: the fused edge list holds each unordered pair of nodes at most once,
   however many ridges emitted it and in whichever orientation, and it holds
   every pair of distinct nodes that was emitted. *)
C2_NoDuplicateEdges ==
    pc = "fused" =>
        /\ \A i, j \in 1 .. Len(conns) :
               i # j => {conns[i][1], conns[i][2]} # {conns[j][1], conns[j][2]}
        /\ {{conns[i][1], conns[i][2]} : i \in 1 .. Len(conns)}
               = {{raw[i][1], raw[i][2]} : i \in {k \in 1 .. Len(raw) : raw[k][1] # raw[k][2]}}

C2_Witness ==
    /\ pc = "fused"
    /\ Cardinality(DOMAIN ridge_dict) >= 2
    /\ \E i, j \in 1 .. Len(raw) : i # j /\ raw[i] = raw[j] /\ raw[i][1] # raw[i][2]
    /\ \E i, j \in 1 .. Len(raw) :
           raw[i][1] # raw[i][2] /\ raw[j] = <<raw[i][2], raw[i][1]>>

TrimStep == pc = "labelled" /\ pc' = "done"

(* old[i + 1] is the pore of the labelled network b that pore i of the
   trimmed one was *)
OldPores(b) == Sorted(ExpectedKept(b), Np(b))

VoronoiNeighbours(n, p) ==
    {q \in PoresOf(n) : n["pore.voronoi"][q] /\ Adjacent(n, p, q)}

(* C3: after the trimming pore.surface and pore.internal are disjoint and
   cover every retained pore; a retained Delaunay pore is surface iff it was
   external before the trimming, a retained Voronoi pore iff it is a
   neighbour of a surface Delaunay pore. *)
C3_PoreSurfaceInternal ==
    [][TrimStep =>
        \E b \in {net} : \E a \in {net'} : \E old \in {OldPores(net)} :
           /\ Np(a) = Len(old)
           /\ \A i \in PoresOf(a) :
                 /\ a["pore.surface"][i] # a["pore.internal"][i]
                 /\ a["pore.delaunay"][i] =>
                        (a["pore.surface"][i] <=> Beyond(b["pore.coords"][old[i + 1]]))
                 /\ a["pore.voronoi"][i] =>
                        (a["pore.surface"][i] <=>
                            \E j \in PoresOf(a) :
                                /\ a["pore.delaunay"][j]
                                /\ a["pore.surface"][j]
                                /\ Adjacent(a, i, j))]_vars

C3_Witness ==
    /\ pc = "done"
    /\ \E p \in PoresOf(net) : net["pore.delaunay"][p] /\ net["pore.surface"][p]
    /\ \E p \in PoresOf(net) : net["pore.delaunay"][p] /\ net["pore.internal"][p]
    /\ \E p \in PoresOf(net) : net["pore.voronoi"][p] /\ net["pore.surface"][p]
    /\ \E p \in PoresOf(net) :
           /\ net["pore.voronoi"][p]
           /\ net["pore.internal"][p]
           /\ Beyond(net["pore.coords"][p])

(* C4 as stated: every throat of the finished network is labelled exactly
   one of throat.surface and throat.internal. *)
C4_ThroatLabelsExhaustive ==
    Finished =>
        \A t \in ThroatsOf(net) : net["throat.surface"][t] # net["throat.internal"][t]

(* C4 amended: a throat is throat.surface iff both its ends are surface
   pores and throat.internal iff both are internal pores, so no throat is
   both and a throat joining a surface pore to an internal one is neither. *)
C4_ThroatLabelsByEnds ==
    Finished =>
        \A t \in ThroatsOf(net) :
            /\ net["throat.surface"][t] <=>
                   \A p \in Ends(net, t) : net["pore.surface"][p]
            /\ net["throat.internal"][t] <=>
                   \A p \in Ends(net, t) : net["pore.internal"][p]
            /\ ~(net["throat.surface"][t] /\ net["throat.internal"][t])

C4_Witness ==
    /\ pc = "done"
    /\ \E t \in ThroatsOf(net) : net["throat.surface"][t]
    /\ \E t \in ThroatsOf(net) : net["throat.internal"][t]
    /\ \E t \in ThroatsOf(net) :
           ~net["throat.surface"][t] /\ ~net["throat.internal"][t]

AtVoronoiMean(n, p) ==
    RatEq(n["pore.coords"][p], Mean(n["pore.coords"], VoronoiNeighbours(n, p)))

(* C5 as stated: every surface pore, Delaunay or Voronoi, lies at the mean
   of the coordinates of its neighbouring Voronoi pores (read in the claim's
   favour: of those surface pores that have a Voronoi neighbour). *)
C5_AllSurfaceAtMean ==
    pc = "done" =>
        \A p \in PoresOf(net) :
            net["pore.surface"][p] /\ VoronoiNeighbours(net, p) # {} => AtVoronoiMean(net, p)

(* C5 amended: every surface Delaunay pore lies at the mean of the
   coordinates of its neighbouring Voronoi pores; none is skipped. *)
C5_SurfaceDelaunayAtMean ==
    Finished =>
        \A p \in PoresOf(net) :
            net["pore.surface"][p] /\ net["pore.delaunay"][p] => AtVoronoiMean(net, p)

C5_Witness ==
    /\ pc = "done"
    /\ \E p \in PoresOf(net) :
           /\ net["pore.surface"][p]
           /\ net["pore.delaunay"][p]
           /\ Cardinality(VoronoiNeighbours(net, p)) = 2
           /\ net["pore.coords"][p] \notin {Rat(Origin), Rat(Outside)}
           /\ \E q \in PoresOf(net) : net["pore.internal"][q] /\ Adjacent(net, p, q)

InterconnectNeighbours(n, p) ==
    {q \in PoresOf(n) :
        \E t \in ThroatsOf(n) : n["throat.interconnect"][t] /\ Ends(n, t) = {p, q}}

(* the i-th throat labelled throat.delaunay *)
NthDelaunayThroat(n, i) ==
    CHOOSE t \in ThroatsOf(n) :
        /\ n["throat.delaunay"][t]
        /\ Cardinality({u \in 1 .. t : n["throat.delaunay"][u]}) = i

(* C6: find_throat_facets() returns, for each Delaunay throat in order, the
   set of the pores joined by an interconnect throat to both its ends; all
   of them are Voronoi pores. *)
C6_FacetsAreCommonNeighbours ==
    pc = "queried" =>
        /\ Len(facets) = Cardinality({t \in ThroatsOf(net) : net["throat.delaunay"][t]})
        /\ \A i \in 1 .. Len(facets) :
               LET t == NthDelaunayThroat(net, i)
                   u == net["throat.conns"][t][1]
                   v == net["throat.conns"][t][2]
               IN /\ facets[i] = InterconnectNeighbours(net, u) \cap InterconnectNeighbours(net, v)
                  /\ \A q \in facets[i] : net["pore.voronoi"][q]

C6_Witness ==
    /\ pc = "queried"
    /\ Len(facets) >= 2
    /\ \E i \in 1 .. Len(facets) : Cardinality(facets[i]) = 2
    /\ \E i \in 1 .. Len(facets) : Cardinality(facets[i]) = 1
    /\ \E t \in ThroatsOf(net) : net["throat.voronoi"][t]

RetrimStep == pc = "done" /\ pc' = "retrimmed"

(* C7 as stated: a second run of _trim_external_pores changes nothing. *)
C7_RetrimNoOp == [][RetrimStep => net' = net]_vars

(* C7 amended: a second run removes no pore and no throat and moves no
   pore; the surface and internal labels may change. *)
C7_RetrimKeepsGraph ==
    [][RetrimStep =>
        /\ net'["pore.coords"] = net["pore.coords"]
        /\ net'["throat.conns"] = net["throat.conns"]
        /\ \A k \in {"pore.delaunay", "pore.voronoi", "throat.delaunay",
                     "throat.voronoi", "throat.interconnect"} : net'[k] = net[k]]_vars

C7_Witness ==
    /\ pc = "retrimmed"
    /\ Np(net) < Nall
    /\ \E p \in PoresOf(net) :
           /\ net["pore.delaunay"][p]
           /\ net["pore.surface"][p]
           /\ Cardinality(VoronoiNeighbours(net, p)) = 2
    /\ \E p \in PoresOf(net) : net["pore.delaunay"][p] /\ net["pore.internal"][p]

NothingCreated ==
    /\ ridge_dict = <<>>
    /\ raw = <<>>
    /\ conns = <<>>
    /\ net = NoNet
    /\ facets = <<>>

(* C8: with neither points nor num_points the construction raises in the
   point preparation and nothing runs after it, so no coordinates, edges or
   labels are created; with either one it does not raise. *)
C8_MissingPointsRaises ==
    [][/\ pc = "start" /\ points = None /\ num_points = None =>
              pc' = "raised" /\ NothingCreated'
       /\ pc = "start" /\ ~(points = None /\ num_points = None) => pc' = "parsed"
       /\ pc # "raised"]_vars

C8_Witness == pc = "raised" /\ points = None /\ num_points = None /\ NothingCreated

(* C9: the trimming retains exactly the Delaunay pores inside the domain
   and their neighbours; in the finished network both ends of every throat
   are retained pores and every pore is an internal Delaunay pore or a
   neighbour of one. *)
C9_RetainedPores ==
    [][TrimStep =>
        \E b \in {net} : \E a \in {net'} : \E old \in {OldPores(net)} :
           /\ Np(a) = Len(old)
           /\ Np(a) = Cardinality(ExpectedKept(b))
           /\ \A i \in PoresOf(a) :
                 /\ a["pore.delaunay"][i] = b["pore.delaunay"][old[i + 1]]
                 /\ a["pore.voronoi"][i] = b["pore.voronoi"][old[i + 1]]
                 /\ \/ a["pore.delaunay"][i] /\ ~Beyond(b["pore.coords"][old[i + 1]])
                    \/ \E j \in PoresOf(a) :
                           /\ a["pore.delaunay"][j]
                           /\ ~Beyond(b["pore.coords"][old[j + 1]])
                           /\ Adjacent(a, i, j)
           /\ \A t \in ThroatsOf(a) :
                 /\ Ends(a, t) \subseteq PoresOf(a)
                 /\ Adjacent(b, old[a["throat.conns"][t][1] + 1],
                                old[a["throat.conns"][t][2] + 1])]_vars

C9_Witness ==
    /\ pc = "done"
    /\ Np(net) < Nall
    /\ Np(net) > NumDelaunay
    /\ \E p \in PoresOf(net) : net["pore.voronoi"][p] /\ Beyond(net["pore.coords"][p])
    /\ \E p \in PoresOf(net) : net["pore.delaunay"][p] /\ net["pore.surface"][p]

====
